---- MODULE Spec2Model ----
(***************************************************************************)
(* Batch recording utilities of webpage-video-recorder (src/lib/batch.js): *)
(* output path derivation, the sequential loop, the concurrency-limited    *)
(* worker pool and the summary report.                                     *)
(*                                                                         *)
(* JavaScript strings are sequences of one-character strings.  JavaScript  *)
(* arrays are records [length, at] where `at` is a function on the indices *)
(* that hold an element (0-based), so that `new Array(n)` is an array of   *)
(* length n with no element.  JavaScript objects are functions on their    *)
(* own keys, and an object spread is Merge.                                *)
(***************************************************************************)
EXTENDS Integers, Sequences, FiniteSets, TLC

\* ------------------------------------------------------------------ bounds

\* longest URL list handed to runSequential / runParallel
MaxUrls == 3
\* largest value of the `concurrency` argument
MaxConcurrency == 3
\* generateOutputPath is called on its own at most MaxCalls times
MaxCalls == 2
\* the URL file has at most MaxFileLen characters
MaxFileLen == 5
\* the length of the unparseable string that is longer than the fallback slug
LongUrlLen == 52

\* ------------------------------------------------------- program constants

\* .substring(0, 50) of the fallback slug
FallbackSlugMax == 50
\* .substring(0, 60) of the path slug
PathSlugMax == 60
\* padStart(3, '0')
PrefixWidth == 3
\* displayStartNumber: 99 + (workerId * 10)
DisplayBase == 99
DisplayStride == 10

\* ------------------------------------------------------------ evaluation

\* the element of a one-element set. The({F(x) : x \in {e}}) is F(e) with e
\* evaluated once, as a call in the program evaluates its arguments before
\* the body runs
The(S) == CHOOSE r \in S : TRUE

\* ------------------------------------------------------------ characters

LowerChars == <<"a","b","c","d","e","f","g","h","i","j","k","l","m",
                "n","o","p","q","r","s","t","u","v","w","x","y","z">>
UpperChars == <<"A","B","C","D","E","F","G","H","I","J","K","L","M",
                "N","O","P","Q","R","S","T","U","V","W","X","Y","Z">>
DigitChars == <<"0","1","2","3","4","5","6","7","8","9">>

Range(s) == {s[i] : i \in DOMAIN s}

LowerSet == Range(LowerChars)
UpperSet == Range(UpperChars)
DigitSet == Range(DigitChars)

IsLower(c) == c \in LowerSet
IsUpper(c) == c \in UpperSet
IsDigit(c) == c \in DigitSet
IsAlpha(c) == IsLower(c) \/ IsUpper(c)
\* the character class [a-zA-Z0-9]
IsAlnum(c) == IsAlpha(c) \/ IsDigit(c)

\* ASCII lower-casing of one character (what the URL parser does to a host
\* and to a scheme)
ToLowerChar(c) ==
    IF IsUpper(c)
    THEN LowerChars[CHOOSE i \in DOMAIN UpperChars : UpperChars[i] = c]
    ELSE c

ToLower(s) == The({[i \in DOMAIN t |-> ToLowerChar(t[i])] : t \in {s}})

\* s.substring(0, n)
Substring0(s, n) == SubSeq(s, 1, IF Len(s) < n THEN Len(s) ELSE n)

\* s.startsWith(p)
StartsWith(s, p) == Len(s) >= Len(p) /\ SubSeq(s, 1, Len(p)) = p

\* s.replace(/[^a-zA-Z0-9]/g, '-')
ReplaceNonAlnum(s) ==
    The({[i \in DOMAIN t |-> IF IsAlnum(t[i]) THEN t[i] ELSE "-"] : t \in {s}})

\* s.replace(/[^a-zA-Z0-9-]/g, '-')
ReplaceNonAlnumHyphen(s) ==
    The({[i \in DOMAIN t |-> IF IsAlnum(t[i]) \/ t[i] = "-" THEN t[i] ELSE "-"]
            : t \in {s}})

\* s.replace(/\./g, '-')
ReplaceDots(s) ==
    The({[i \in DOMAIN t |-> IF t[i] = "." THEN "-" ELSE t[i]] : t \in {s}})

\* s.replace(/^www\./, '')
StripWww(s) ==
    IF StartsWith(s, <<"w","w","w",".">>) THEN SubSeq(s, 5, Len(s)) ELSE s

\* s.replace(/^\//, '')
StripLeadingSlash(s) ==
    IF Len(s) > 0 /\ s[1] = "/" THEN SubSeq(s, 2, Len(s)) ELSE s

\* s.replace(/\/$/, '')
StripTrailingSlash(s) ==
    IF Len(s) > 0 /\ s[Len(s)] = "/" THEN SubSeq(s, 1, Len(s) - 1) ELSE s

\* String(n) for an integer n >= 0: its decimal digits
RECURSIVE DecimalString(_)
DecimalString(n) ==
    IF n < 10 THEN <<DigitChars[n + 1]>>
    ELSE DecimalString(n \div 10) \o <<DigitChars[(n % 10) + 1]>>

\* s.padStart(width, c) for a one-character pad string
RECURSIVE PadStart(_, _, _)
PadStart(s, width, c) ==
    IF Len(s) >= width THEN s ELSE PadStart(<<c>> \o s, width, c)

\* parts.slice(k - 1).join('-')
RECURSIVE JoinHyphenFrom(_, _)
JoinHyphenFrom(parts, k) ==
    IF k > Len(parts) THEN <<>>
    ELSE IF k = Len(parts) THEN parts[k]
    ELSE parts[k] \o <<"-">> \o JoinHyphenFrom(parts, k + 1)

\* parts.join('-')
JoinHyphen(parts) == JoinHyphenFrom(parts, 1)

\* path.join(dir, name) for a normalized dir (no '.', '..' or empty segment)
\* and a file name without '/'
PathJoin(dir, name) ==
    IF Len(dir) = 0 THEN name
    ELSE IF dir[Len(dir)] = "/" THEN dir \o name
    ELSE dir \o <<"/">> \o name

\* ------------------------------------------------------------ new URL(url)

\* The WHATWG URL parser, as used without a base URL, on printable ASCII
\* strings without leading or trailing spaces. When a scheme is present the
\* strings have no userinfo, port, IP-literal or numeric host, no '.' or
\* '..' path segment, no character the path state percent-encodes
\* (space " < > ^ U+0060 { }), no percent-escape in a special host of a
\* byte above 7E, and a scheme other than file. A host label xn--... of
\* these strings has at least one encoded code point and does not decode
\* to a label that itself begins with xn--. Where it decodes to code points
\* above U+00FF, these are valid in IDNA, the label is in normalization
\* form C and subject to no bidi or joiner rule, and its first code point
\* is no combining mark outside U+0300 .. U+036F.

IsSchemeChar(c) == IsAlnum(c) \/ c \in {"+", "-", "."}

\* number of characters of the scheme (0: the string has no scheme, and the
\* parser fails for want of a base URL)
SchemeLen(url) ==
    IF /\ Len(url) > 0
       /\ IsAlpha(url[1])
       /\ \E k \in 2..Len(url) :
             url[k] = ":" /\ \A j \in 1..(k - 1) : IsSchemeChar(url[j])
    THEN (CHOOSE k \in 2..Len(url) :
             url[k] = ":" /\ \A j \in 1..(k - 1) : IsSchemeChar(url[j])) - 1
    ELSE 0

SpecialSchemes ==
    { <<"h","t","t","p">>, <<"h","t","t","p","s">>, <<"f","t","p">>,
      <<"w","s">>, <<"w","s","s">> }

\* the character U+0060, which a string of this language cannot hold
Grave == "U+0060"

\* the characters U+0020 .. U+007E, in code order
AsciiPrintable ==
    <<" ", "!", "\"", "#", "$", "%", "&", "'", "(", ")", "*", "+", ",", "-",
      ".", "/", "0", "1", "2", "3", "4", "5", "6", "7", "8", "9", ":", ";",
      "<", "=", ">", "?", "@", "A", "B", "C", "D", "E", "F", "G", "H", "I",
      "J", "K", "L", "M", "N", "O", "P", "Q", "R", "S", "T", "U", "V", "W",
      "X", "Y", "Z", "[", "\\", "]", "^", "_", Grave, "a", "b", "c", "d", "e",
      "f", "g", "h", "i", "j", "k", "l", "m", "n", "o", "p", "q", "r", "s",
      "t", "u", "v", "w", "x", "y", "z", "{", "|", "}", "~">>

\* the code of the first character of AsciiPrintable
FirstPrintable == 32

HexChars ==
    <<"0","1","2","3","4","5","6","7","8","9","a","b","c","d","e","f">>

IsHexChar(c) == ToLowerChar(c) \in Range(HexChars)

\* the value of a hexadecimal digit, in either case
HexValue(c) == (CHOOSE i \in DOMAIN HexChars : HexChars[i] = ToLowerChar(c)) - 1

\* a decoded byte that is no printable ASCII character
NotPrintable == "byte"

\* the character of a byte
CharOfByte(n) ==
    IF n >= FirstPrintable /\ n < FirstPrintable + Len(AsciiPrintable)
    THEN AsciiPrintable[n - FirstPrintable + 1]
    ELSE NotPrintable

\* percent-decoding: each %XY with hexadecimal X and Y becomes one byte, any
\* other character stays
RECURSIVE PercentDecodeFrom(_, _)
PercentDecodeFrom(s, k) ==
    IF k > Len(s) THEN <<>>
    ELSE IF /\ s[k] = "%"
            /\ k + 2 <= Len(s)
            /\ IsHexChar(s[k + 1])
            /\ IsHexChar(s[k + 2])
    THEN <<CharOfByte(16 * HexValue(s[k + 1]) + HexValue(s[k + 2]))>>
             \o PercentDecodeFrom(s, k + 3)
    ELSE <<s[k]>> \o PercentDecodeFrom(s, k + 1)

PercentDecode(s) == PercentDecodeFrom(s, 1)

\* the forbidden host code points among the printable characters
ForbiddenHostChars ==
    {" ", "#", "/", ":", "<", ">", "?", "@", "[", "\\", "]", "^", "|"}

\* the forbidden domain code points: those, '%', and the bytes that are not
\* printable
ForbiddenDomainChars == ForbiddenHostChars \cup {"%", NotPrintable}

\* length of the longest prefix of s with no character of `stops`
PrefixBefore(s, stops) ==
    CHOOSE k \in 0..Len(s) :
        /\ \A j \in 1..k : s[j] \notin stops
        /\ k = Len(s) \/ s[k + 1] \in stops

\* --- domain-to-ASCII on a label that begins with xn--: the rest of the
\* label is decoded as punycode (RFC 3492) and the decoded label has to be
\* non-empty and made of code points that IDNA lists as valid

\* the value of a punycode digit (a-z: 0..25, 0-9: 26..35), -1 for any other
\* character
PunyDigit(c) ==
    IF IsLower(c)
    THEN (CHOOSE i \in DOMAIN LowerChars : LowerChars[i] = c) - 1
    ELSE IF IsDigit(c)
    THEN (CHOOSE i \in DOMAIN DigitChars : DigitChars[i] = c) + 25
    ELSE 0 - 1

\* t = k <= bias ? tmin : k >= bias + tmax ? tmax : k - bias
PunyThreshold(k, bias) ==
    IF k <= bias THEN 1 ELSE IF k >= bias + 26 THEN 26 ELSE k - bias

\* the loop of adapt: while delta > ((base - tmin) * tmax) / 2
RECURSIVE PunyAdaptFrom(_, _)
PunyAdaptFrom(delta, k) ==
    IF delta > 455
    THEN PunyAdaptFrom(delta \div 35, k + 36)
    ELSE k + ((36 * delta) \div (delta + 38))

\* adapt(delta, numPoints, firstTime): the next bias
PunyAdapt(delta, numPoints, firstTime) ==
    The({PunyAdaptFrom(d + (d \div numPoints), 0) :
            d \in {IF firstTime THEN delta \div 700 ELSE delta \div 2}})

PunyFailed == [ok |-> FALSE, out |-> <<>>, i |-> 0, pos |-> 0]

\* one generalized variable-length integer, read from s[pos]: the digits
\* are added to i with the weights w, in 32-bit arithmetic whose overflow
\* is a failure
RECURSIVE PunyDelta(_, _, _, _, _, _)
PunyDelta(s, pos, i, w, k, bias) ==
    IF pos > Len(s) THEN PunyFailed
    ELSE IF \/ PunyDigit(s[pos]) < 0
            \/ PunyDigit(s[pos]) > (2147483647 - i) \div w
    THEN PunyFailed
    ELSE IF PunyDigit(s[pos]) < PunyThreshold(k, bias)
    THEN [PunyFailed EXCEPT !.ok = TRUE,
                            !.i = i + (PunyDigit(s[pos]) * w),
                            !.pos = pos + 1]
    ELSE IF w > 2147483647 \div (36 - PunyThreshold(k, bias))
    THEN PunyFailed
    ELSE PunyDelta(s, pos + 1, i + (PunyDigit(s[pos]) * w),
                   w * (36 - PunyThreshold(k, bias)), k + 36, bias)

RECURSIVE PunyExtended(_, _, _, _, _, _)

\* d: the integer read by PunyDelta; out: the code points written so far.
\* n + d.i / (out.length + 1) is the next code point, inserted into out at
\* the index d.i % (out.length + 1)
PunyPoint(s, d, out, n, oldi) ==
    IF ~d.ok \/ d.i \div (Len(out) + 1) > 2147483647 - n
    THEN PunyFailed
    ELSE The({PunyExtended(s, d.pos,
                           [j \in 1..(Len(out) + 1) |->
                               IF j <= at THEN out[j]
                               ELSE IF j = at + 1 THEN point
                               ELSE out[j - 1]],
                           point, at + 1,
                           PunyAdapt(d.i - oldi, Len(out) + 1, oldi = 0)) :
                 point \in {n + (d.i \div (Len(out) + 1))},
                 at \in {d.i % (Len(out) + 1)}})

\* the main loop of the decoder from s[pos] on
PunyExtended(s, pos, out, n, i, bias) ==
    IF pos > Len(s)
    THEN [PunyFailed EXCEPT !.ok = TRUE, !.out = out]
    ELSE The({PunyPoint(s, d, o, n, i) :
                 d \in {PunyDelta(s, pos, i, 1, 36, bias)}, o \in {out}})

\* the position of the last '-' of s, 0 when it has none
LastHyphen(s) ==
    CHOOSE k \in 0..Len(s) :
        /\ k = 0 \/ s[k] = "-"
        /\ \A j \in (k + 1)..Len(s) : s[j] # "-"

\* the decoding of s into code points: the characters before the last '-'
\* are copied as their codes (0 stands for a byte that is not printable),
\* what follows is decoded from n = 128, i = 0, bias = 72
PunyDecode(s) ==
    The({PunyExtended(s, p + 1,
                      [j \in 1..(IF p = 0 THEN 0 ELSE p - 1) |->
                          IF s[j] \in Range(AsciiPrintable)
                          THEN FirstPrintable - 1
                                   + CHOOSE c \in DOMAIN AsciiPrintable :
                                         AsciiPrintable[c] = s[j]
                          ELSE 0],
                      128, 0, 72) :
            p \in {LastHyphen(s)}})

\* the code points U+0080 .. U+00FF that the IDNA mapping table lists as
\* valid or deviation (the others are disallowed, mapped or ignored)
ValidLatin1 ==
    (161..167) \cup {169, 171, 172, 174, 176, 177, 182, 183, 187, 191, 215}
        \cup (223..255)

\* a decoded code point that domain-to-ASCII accepts; above U+00FF every
\* scalar value is taken for valid
IsValidCodePoint(n) ==
    \/ n \in ValidLatin1
    \/ n > 255 /\ n <= 1114111 /\ ~(n >= 55296 /\ n <= 57343)

\* label: one label of the host, beginning with xn--. The decoded label
\* has an encoded code point, only valid code points, and no combining
\* diacritical mark (U+0300 .. U+036F) in front
ValidPunycodeLabel(label) ==
    \E d \in {PunyDecode(SubSeq(label, 5, Len(label)))} :
        /\ d.ok
        /\ \E j \in 1..Len(d.out) : d.out[j] >= 128
        /\ \A j \in 1..Len(d.out) :
              d.out[j] >= 128 => IsValidCodePoint(d.out[j])
        /\ ~(d.out[1] >= 768 /\ d.out[1] <= 879)

\* some label of the host begins with xn-- and is rejected
HasInvalidPunycodeLabel(host) ==
    \E k \in 1..Len(host) :
        /\ k = 1 \/ host[k - 1] = "."
        /\ StartsWith(SubSeq(host, k, Len(host)), <<"x", "n", "-", "-">>)
        /\ ~ValidPunycodeLabel(
               SubSeq(host, k,
                      k - 1 + PrefixBefore(SubSeq(host, k, Len(host)), {"."})))

\* length of the longest prefix of s made of '/' and '\' characters (a
\* special scheme takes '\' for '/')
LeadingSlashes(s) ==
    CHOOSE k \in 0..Len(s) :
        /\ \A j \in 1..k : s[j] \in {"/", "\\"}
        /\ k = Len(s) \/ s[k + 1] \notin {"/", "\\"}

\* the part of s before its query or fragment
PathOf(s) == SubSeq(s, 1, PrefixBefore(s, {"?", "#"}))

\* the path of a special-scheme URL: each '\' is a '/'
BackslashToSlash(s) ==
    The({[i \in DOMAIN t |-> IF t[i] = "\\" THEN "/" ELSE t[i]] : t \in {s}})

\* new URL(url) throws a TypeError
ParseFailed == [ok |-> FALSE, hostname |-> <<>>, pathname |-> <<>>]

\* domain: the host of a special-scheme URL after percent-decoding and
\* lower-casing (domain-to-ASCII on ASCII)
SpecialDomain(domain, path) ==
    IF \/ Len(domain) = 0
       \/ Range(domain) \cap ForbiddenDomainChars # {}
       \/ HasInvalidPunycodeLabel(domain)
    THEN ParseFailed
    ELSE [ok       |-> TRUE,
          hostname |-> domain,
          pathname |-> IF Len(path) = 0 THEN <<"/">> ELSE BackslashToSlash(path)]

\* a special-scheme URL with this host and path: the host is
\* percent-decoded, lower-cased and validated, an empty path is "/"
SpecialHostPath(host, path) ==
    IF Len(host) = 0
    THEN ParseFailed
    ELSE The({SpecialDomain(domain, path) :
                 domain \in {ToLower(PercentDecode(host))}})

\* auth: what follows the scheme and its slashes; hlen: the host's length
SpecialSplit(auth, hlen) ==
    The({SpecialHostPath(host, path) :
            host \in {SubSeq(auth, 1, hlen)},
            path \in {PathOf(SubSeq(auth, hlen + 1, Len(auth)))}})

\* a special-scheme URL: the slashes after the scheme are skipped and the
\* host ends at the first '/', '\', '?' or '#'
SpecialAuthority(auth) ==
    The({SpecialSplit(auth, hlen) :
            hlen \in {PrefixBefore(auth, {"/", "\\", "?", "#"})}})

\* a non-special URL with an authority: the host is opaque, kept as written
\* unless it holds a forbidden host code point
OpaqueHostSplit(auth, hlen) ==
    IF Range(SubSeq(auth, 1, hlen)) \cap ForbiddenHostChars # {}
    THEN ParseFailed
    ELSE [ok       |-> TRUE,
          hostname |-> SubSeq(auth, 1, hlen),
          pathname |-> PathOf(SubSeq(auth, hlen + 1, Len(auth)))]

\* a non-special URL whose scheme is followed by '//': the host ends at the
\* first '/', '?' or '#'
OpaqueAuthority(auth) ==
    The({OpaqueHostSplit(auth, hlen) :
            hlen \in {PrefixBefore(auth, {"/", "?", "#"})}})

\* scheme: lower-cased; rest: what follows the ':'
ParseAfterScheme(scheme, rest) ==
    IF scheme \in SpecialSchemes
    THEN The({SpecialAuthority(auth) :
                 auth \in {SubSeq(rest, LeadingSlashes(rest) + 1, Len(rest))}})
    ELSE IF StartsWith(rest, <<"/", "/">>)
    THEN The({OpaqueAuthority(auth) : auth \in {SubSeq(rest, 3, Len(rest))}})
    ELSE [ok |-> TRUE, hostname |-> <<>>, pathname |-> PathOf(rest)]

ParseWithScheme(url, n) ==
    IF n = 0 THEN ParseFailed
    ELSE The({ParseAfterScheme(scheme, rest) :
                 scheme \in {ToLower(SubSeq(url, 1, n))},
                 rest \in {SubSeq(url, n + 2, Len(url))}})

\* [ok, hostname, pathname]; ok = FALSE is the TypeError of new URL(url)
ParseURL(url) ==
    The({ParseWithScheme(u, n) : u \in {url}, n \in {SchemeLen(url)}})

\* ------------------------------------------------------ generateOutputPath

DotMp4 == <<".", "m", "p", "4">>

\* IndexPrefix cut to its last three digits
IndexPrefixLastThree(index) ==
    The({SubSeq(p, Len(p) - PrefixWidth + 1, Len(p)) :
            p \in {PadStart(DecimalString(index + 1), PrefixWidth, "0")}})

\* IndexPrefix without padStart
IndexPrefixUnpadded(index) == DecimalString(index + 1)

\* String(index + 1).padStart(3, '0')
IndexPrefix(index) == PadStart(DecimalString(index + 1), PrefixWidth, "0")

\* FallbackPath without .substring(0, 50)
FallbackPathUntruncated(url, prefix, outputDir) ==
    PathJoin(outputDir, prefix \o <<"-">> \o ReplaceNonAlnum(url) \o DotMp4)

\* the catch branch: the fallback for invalid URLs
FallbackPath(url, prefix, outputDir) ==
    PathJoin(outputDir,
             prefix \o <<"-">>
                    \o Substring0(ReplaceNonAlnum(url), FallbackSlugMax)
                    \o DotMp4)

\* parsed.pathname.replace(/^\//, '').replace(/\/$/, '')
\*     .replace(/[^a-zA-Z0-9-]/g, '-').substring(0, 60)
PathSlug(pathname) ==
    Substring0(ReplaceNonAlnumHyphen(
                   StripTrailingSlash(StripLeadingSlash(pathname))),
               PathSlugMax)

\* [prefix, hostPart] with pathSlug pushed when it is not empty
NameParts(prefix, hostPart, pathSlug) ==
    IF Len(pathSlug) > 0 THEN <<prefix, hostPart, pathSlug>>
    ELSE <<prefix, hostPart>>

\* the path for a URL that parsed
ParsedPath(parsed, prefix, outputDir) ==
    PathJoin(outputDir,
             JoinHyphen(NameParts(prefix,
                                  ReplaceDots(StripWww(parsed.hostname)),
                                  PathSlug(parsed.pathname)))
                 \o DotMp4)

OutputPathOf(parsed, url, prefix, outputDir) ==
    IF ~parsed.ok THEN FallbackPath(url, prefix, outputDir)
    ELSE ParsedPath(parsed, prefix, outputDir)

generateOutputPath(url, index, outputDir) ==
    The({OutputPathOf(parsed, url, prefix, outputDir) :
            parsed \in {ParseURL(url)}, prefix \in {IndexPrefix(index)}})

\* ------------------------------------------------------- objects and arrays

\* { ...a, ...b }: the keys of both, b winning
Merge(a, b) ==
    [k \in (DOMAIN a) \cup (DOMAIN b) |-> IF k \in DOMAIN b THEN b[k] ELSE a[k]]

\* the object {}
EmptyObject == [k \in {} |-> 0]

\* new Array(n): length n, every slot empty
NewArray(n) == [length |-> n, at |-> EmptyObject]

\* a[i] = v
ArraySet(a, i, v) ==
    [length |-> IF i >= a.length THEN i + 1 ELSE a.length,
     at     |-> [j \in (DOMAIN a.at) \cup {i} |-> IF j = i THEN v ELSE a.at[j]]]

\* a.push(v)
ArrayPush(a, v) == ArraySet(a, a.length, v)

\* whether slot i of a holds an element
HasSlot(a, i) == i \in DOMAIN a.at

\* Math.min(a, b)
MathMin(a, b) == IF a < b THEN a ELSE b

\* ------------------------------------------------------------------ inputs

\* "https://www.Example.com/Foo/Bar/"
UrlPage ==
    <<"h","t","t","p","s",":","/","/","w","w","w",".","E","x","a","m","p",
      "l","e",".","c","o","m","/","F","o","o","/","B","a","r","/">>
\* "not a valid url!!"
UrlInvalid ==
    <<"n","o","t"," ","a"," ","v","a","l","i","d"," ","u","r","l","!","!">>

Urls == {UrlPage, UrlInvalid}

\* the empty string
UrlEmpty == <<>>
\* "x x x ... x ": LongUrlLen characters, not a URL
UrlLongInvalid == [i \in 1..LongUrlLen |-> IF i % 2 = 1 THEN "x" ELSE " "]
\* "http://a.b"
UrlHostOnly == <<"h","t","t","p",":","/","/","a",".","b">>

\* "http:\\A%42.c\d\e\": backslashes for slashes, a percent-escape in the host
UrlBackslashes ==
    <<"h","t","t","p",":","\\","\\","A","%","4","2",".","c","\\","d","\\","e",
      "\\">>

\* "http://xn--bcher-kva.de/a": a host label in punycode
UrlPunycode ==
    <<"h","t","t","p",":","/","/","x","n","-","-","b","c","h",
      "e","r","-","k","v","a",".","d","e","/","a">>

\* the url, index and outputDir arguments of generateOutputPath called on
\* its own
PathUrls ==
    {UrlPage, UrlInvalid, UrlEmpty, UrlLongInvalid, UrlHostOnly, UrlBackslashes,
     UrlPunycode,
     \* "http://xn--a-cdb.b/": a host label that decodes to U+031A "a"
     <<"h","t","t","p",":","/","/","x","n","-","-","a","-","c","d","b",".","b","/">>,
     \* "http://xn--a.b/": a host label that domain-to-ASCII rejects
     <<"h","t","t","p",":","/","/","x","n","-","-","a",".","b","/">>}
PathIndices == {0, 4, 9, 99, 999, 1000}
PathDirs == { <<>>, <<"/","o","u","t">>, <<"o","u","t","/">> }

\* the arrays of at most MaxUrls URLs
UrlLists ==
    UNION { { [length |-> n, at |-> f] : f \in [0..(n - 1) -> Urls] }
            : n \in 0..MaxUrls }

\* "/out"
OutputDirs == { <<"/","o","u","t">> }

\* "shared_sink"
SharedSink == <<"s","h","a","r","e","d","_","s","i","n","k">>

\* the sharedArgs objects: none, a pass-through option, and options that
\* bear the names of the worker-scoped fields
SharedArgsChoices ==
    { EmptyObject,
      [duration |-> 30],
      [sinkName |-> SharedSink, displayStartNumber |-> DisplayBase] }

\* the `concurrency` argument, zero and negative included
Concurrencies == (0 - 1)..MaxConcurrency

\* "failed"
ErrorText == <<"f","a","i","l","e","d">>

\* what an invocation of recordFn resolves to
Outcomes ==
    { [success |-> TRUE],
      [success |-> FALSE, error |-> ErrorText] }

VARIABLES
    urls,          \* argument: the URL array
    outputDir,     \* argument
    sharedArgs,    \* argument: object spread into every JobContext
    concurrency,   \* argument of runParallel
    dirExists,     \* file system: existsSync(outputDir)
    seqPc,         \* runSequential: "idle", "awaiting", "hung", "returned", "rejected"
    seqError,      \* what runSequential rejected with: "none", "mkdir", "recordFn"
    seqI,          \* runSequential: the loop variable i
    seqCtx,        \* runSequential: the JobContext of the invocation in flight
    seqResults,    \* runSequential: results
    seqInvoked,    \* history: job indices recordFn was invoked for, in order
    seqOutcomes,   \* history: job index -> what recordFn resolved to
    parPc,         \* runParallel: "idle", "pending", "returned", "rejected"
    parError,      \* what runParallel rejected with: "none", "mkdir", "recordFn"
    results,       \* runParallel: results
    nextIndex,     \* runParallel: the shared cursor
    workers,       \* runParallel: workerId -> the activation of worker(workerId)
    claimed,       \* history: job indices claimed from the cursor, in order
    writeCount,    \* history: job index -> number of writes of results[index]
    parOutcomes,   \* history: job index -> what recordFn resolved to
    report,        \* what printBatchSummary logged
    gen,           \* history: the calls of generateOutputPath made on their own
    file,          \* file system: the URL file, [exists, content]
    read           \* readUrlFile: [pc, urls, error]

inputVars == <<urls, outputDir, sharedArgs, concurrency>>
seqVars   == <<seqPc, seqError, seqI, seqCtx, seqResults, seqInvoked,
               seqOutcomes>>
parVars   == <<parPc, parError, results, nextIndex, workers, claimed, writeCount,
               parOutcomes>>
fnVars    == <<gen, file, read>>
vars      == <<inputVars, dirExists, seqVars, parVars, report, fnVars>>

\* ------------------------------------------------------------ JobContext

\* `[${i + 1}/${urls.length}]`
SeqJobLabel(i) ==
    <<"[">> \o DecimalString(i + 1) \o <<"/">> \o DecimalString(urls.length)
            \o <<"]">>

\* `[W${workerId}|${index + 1}/${urls.length}]`
ParJobLabel(workerId, index) ==
    <<"[", "W">> \o DecimalString(workerId) \o <<"|">>
                 \o DecimalString(index + 1) \o <<"/">>
                 \o DecimalString(urls.length) \o <<"]">>

\* 99 + (workerId * 10)
DisplayStartNumber(workerId) == DisplayBase + (workerId * DisplayStride)

\* `recording_sink_${workerId}`
SinkName(workerId) ==
    <<"r","e","c","o","r","d","i","n","g","_","s","i","n","k","_">>
        \o DecimalString(workerId)

\* the object runSequential passes to recordFn
SequentialContext(url, outputPath, i) ==
    Merge([url          |-> url,
           outputPath   |-> outputPath,
           jobLabel     |-> SeqJobLabel(i),
           jobIndex     |-> i,
           parallelMode |-> FALSE],
          sharedArgs)

\* the object worker(workerId) passes to recordFn
ParallelContext(workerId, url, outputPath, index) ==
    Merge([url                |-> url,
           outputPath         |-> outputPath,
           jobLabel           |-> ParJobLabel(workerId, index),
           jobIndex           |-> index,
           parallelMode       |-> TRUE,
           displayStartNumber |-> DisplayStartNumber(workerId),
           sinkName           |-> SinkName(workerId)],
          sharedArgs)

\* { url, outputPath, ...result }
ResultRecord(url, outputPath, result) ==
    Merge([url |-> url, outputPath |-> outputPath], result)

\* ------------------------------------------------------------------- Init

NoWorkers == [w \in {} |-> 0]

\* printBatchSummary has not been called
NoReport == [printed |-> FALSE, rows |-> <<>>, totals |-> <<>>, threw |-> FALSE]

\* no URL file, and readUrlFile has not been called
NoFile == [exists |-> FALSE, content |-> <<>>]
NoRead == [pc |-> "idle", urls |-> <<>>, error |-> "none"]

\* neither generateOutputPath nor readUrlFile has been called on its own
FnIdle ==
    /\ gen = <<>>
    /\ file = NoFile
    /\ read = NoRead

\* neither runSequential nor runParallel nor printBatchSummary has been
\* called
BatchIdle ==
    /\ seqPc = "idle"
    /\ seqError = "none"
    /\ seqI = 0
    /\ seqCtx = EmptyObject
    /\ seqResults = NewArray(0)
    /\ seqInvoked = <<>>
    /\ seqOutcomes = EmptyObject
    /\ parPc = "idle"
    /\ parError = "none"
    /\ results = NewArray(0)
    /\ nextIndex = 0
    /\ workers = NoWorkers
    /\ claimed = <<>>
    /\ writeCount = EmptyObject
    /\ parOutcomes = EmptyObject
    /\ report = NoReport

Init ==
    /\ urls \in UrlLists
    /\ outputDir \in OutputDirs
    /\ sharedArgs \in SharedArgsChoices
    /\ concurrency \in Concurrencies
    /\ dirExists \in BOOLEAN
    /\ BatchIdle
    /\ FnIdle

\* -------------------------------------------------------- ensureOutputDir

\* ensureOutputDir(outputDir) returns: the directory existed, or mkdirSync
\* created it
EnsureOutputDir(mkdirOk) ==
    /\ dirExists \/ mkdirOk
    /\ dirExists' = TRUE

\* ensureOutputDir(outputDir) throws: the directory is missing and mkdirSync
\* fails
EnsureOutputDirThrows ==
    /\ ~dirExists
    /\ dirExists' = FALSE

\* ---------------------------------------------------------- runSequential

\* SeqInvoke started before the previous outcome is pushed
SeqInvokeBeforePush(i, url, outputPath, res) ==
    /\ seqPc' = "awaiting"
    /\ seqI' = i
    /\ seqCtx' = SequentialContext(url, outputPath, i)
    /\ seqInvoked' = Append(seqInvoked, i)
    /\ seqResults' = seqResults

\* the for loop's body for position i, up to `await recordFn(...)`
SeqInvoke(i, url, outputPath, res) ==
    /\ seqPc' = "awaiting"
    /\ seqI' = i
    /\ seqCtx' = SequentialContext(url, outputPath, i)
    /\ seqInvoked' = Append(seqInvoked, i)
    /\ seqResults' = res

\* the head of the for loop with loop variable i and results res: either the
\* body up to `await recordFn(...)`, or `return results`
SeqIterate(i, res) ==
    IF i < urls.length
    THEN SeqInvoke(i, urls.at[i],
                   generateOutputPath(urls.at[i], i, outputDir), res)
    ELSE /\ seqPc' = "returned"
         /\ seqI' = i
         /\ seqCtx' = EmptyObject
         /\ seqInvoked' = seqInvoked
         /\ seqResults' = res

\* the call runSequential(urls, outputDir, recordFn, sharedArgs), up to its
\* first await
RunSequential ==
    /\ seqPc = "idle"
    /\ parPc = "idle"
    /\ \E mkdirOk \in BOOLEAN : EnsureOutputDir(mkdirOk)
    /\ SeqIterate(0, NewArray(0))
    /\ seqError' = "none"
    /\ UNCHANGED <<inputVars, fnVars, seqOutcomes, parVars, report>>

\* the call, when ensureOutputDir throws
RunSequentialMkdirFails ==
    /\ seqPc = "idle"
    /\ parPc = "idle"
    /\ EnsureOutputDirThrows
    /\ seqPc' = "rejected"
    /\ seqError' = "mkdir"
    /\ UNCHANGED <<inputVars, fnVars, seqI, seqCtx, seqResults, seqInvoked, seqOutcomes,
                   parVars, report>>

\* SeqResume with a `break` after a failed job
SeqResumeBreaksOnFailure ==
    /\ seqPc = "awaiting"
    /\ \E result \in Outcomes :
          /\ IF result.success
             THEN SeqIterate(seqI + 1,
                             ArrayPush(seqResults,
                                       ResultRecord(urls.at[seqI],
                                                    generateOutputPath(
                                                        urls.at[seqI], seqI,
                                                        outputDir),
                                                    result)))
             ELSE /\ seqPc' = "returned"
                  /\ seqI' = seqI
                  /\ seqCtx' = EmptyObject
                  /\ seqInvoked' = seqInvoked
                  /\ seqResults' =
                         ArrayPush(seqResults,
                                   ResultRecord(urls.at[seqI],
                                                generateOutputPath(
                                                    urls.at[seqI], seqI,
                                                    outputDir),
                                                result))
          /\ seqOutcomes' = Merge(seqOutcomes, [i \in {seqI} |-> result])
    /\ UNCHANGED <<inputVars, fnVars, dirExists, seqError, parVars, report>>

\* recordFn resolves: results.push(...), the log line, i++, and the next
\* iteration up to its await
SeqResume ==
    /\ seqPc = "awaiting"
    /\ \E result \in Outcomes :
          /\ SeqIterate(seqI + 1,
                        ArrayPush(seqResults,
                                  ResultRecord(urls.at[seqI],
                                               generateOutputPath(urls.at[seqI],
                                                                  seqI, outputDir),
                                               result)))
          /\ seqOutcomes' = Merge(seqOutcomes, [i \in {seqI} |-> result])
    /\ UNCHANGED <<inputVars, fnVars, dirExists, seqError, parVars, report>>

\* recordFn raises (throws, or its promise rejects): the await throws, the
\* async function rejects
SeqThrow ==
    /\ seqPc = "awaiting"
    /\ seqPc' = "rejected"
    /\ seqError' = "recordFn"
    /\ seqCtx' = EmptyObject
    /\ UNCHANGED <<inputVars, fnVars, dirExists, seqI, seqResults, seqInvoked,
                   seqOutcomes, parVars, report>>

\* the invocation in flight never settles
SeqHang ==
    /\ seqPc = "awaiting"
    /\ seqPc' = "hung"
    /\ UNCHANGED <<inputVars, fnVars, dirExists, seqError, seqI, seqCtx, seqResults,
                   seqInvoked, seqOutcomes, parVars, report>>

\* ------------------------------------------------------------ runParallel

\* urls.map((url, i) => ({ url, index: i }))
Queue ==
    [length |-> urls.length,
     at     |-> [i \in DOMAIN urls.at |-> [url |-> urls.at[i], index |-> i]]]

\* nextIndex++ leaves the cursor at
AdvanceCursor(n) == n + 1

\* ResultSlot as results.push would fill the array: in completion order
ResultSlotInCompletionOrder(job) == Cardinality(DOMAIN results.at)

\* the slot of results a job's outcome is written to
ResultSlot(job) == job.index

\* WorkerBound without the cap at urls.length
WorkerBoundUncapped == concurrency

\* WorkerBound raised to one worker when Math.min is below 1
WorkerBoundAtLeastOne ==
    IF MathMin(concurrency, urls.length) < 1
    THEN 1
    ELSE MathMin(concurrency, urls.length)

\* Math.min(concurrency, urls.length)
WorkerBound == MathMin(concurrency, urls.length)

ExitedWorker ==
    [pc |-> "exited", url |-> <<>>, index |-> 0 - 1, outputPath |-> <<>>,
     ctx |-> EmptyObject]

\* worker(workerId) suspended at `await recordFn(...)` for this job
AwaitingWorker(workerId, job, outputPath) ==
    [pc         |-> "awaiting",
     url        |-> job.url,
     index      |-> job.index,
     outputPath |-> outputPath,
     ctx        |-> ParallelContext(workerId, job.url, outputPath, job.index)]

\* the pool state st with worker workerId's activation set to me
WithWorker(st, workerId, me, cursor, claims) ==
    [nextIndex |-> cursor,
     workers   |-> [w \in (DOMAIN st.workers) \cup {workerId} |->
                       IF w = workerId THEN me ELSE st.workers[w]],
     claimed   |-> claims]

\* const jobIdx = nextIndex++ and the loop body up to `await recordFn(...)`
WorkerClaim(st, workerId, jobIdx, job) ==
    WithWorker(st, workerId,
               AwaitingWorker(workerId, job,
                              generateOutputPath(job.url, job.index, outputDir)),
               AdvanceCursor(jobIdx),
               Append(st.claimed, jobIdx))

\* worker(workerId) at the head of its while loop, on the pool state
\* st = [nextIndex, workers, claimed]: either the body up to
\* `await recordFn(...)`, or the end of the function
WorkerIterate(st, workerId) ==
    IF st.nextIndex < Queue.length
    THEN WorkerClaim(st, workerId, st.nextIndex, Queue.at[st.nextIndex])
    ELSE WithWorker(st, workerId, ExitedWorker, st.nextIndex, st.claimed)

\* the pool state as the variables hold it
PoolState == [nextIndex |-> nextIndex, workers |-> workers, claimed |-> claimed]

\* the variables' next values are the pool state st
SetPool(st) ==
    /\ nextIndex' = st.nextIndex
    /\ workers' = st.workers
    /\ claimed' = st.claimed

\* for (let i = 0; i < n; i++) workers.push(worker(i)): each worker runs
\* synchronously up to its first await
RECURSIVE LaunchWorkers(_, _, _)
LaunchWorkers(st, i, n) ==
    IF i < n THEN LaunchWorkers(WorkerIterate(st, i), i + 1, n) ELSE st

\* ParallelCall without the call of ensureOutputDir
ParallelCallUnensured ==
    /\ parPc = "idle"
    /\ dirExists' = dirExists
    /\ SetPool(LaunchWorkers([nextIndex |-> 0, workers |-> NoWorkers,
                              claimed |-> <<>>], 0, WorkerBound))
    /\ results' = NewArray(urls.length)
    /\ writeCount' = [i \in 0..(urls.length - 1) |-> 0]
    /\ parPc' = "pending"
    /\ parError' = "none"
    /\ UNCHANGED <<inputVars, fnVars, seqVars, parOutcomes, report>>

\* runParallel(urls, outputDir, recordFn, sharedArgs, concurrency), up to
\* `await Promise.all(workers)`
ParallelCall ==
    /\ parPc = "idle"
    /\ \E mkdirOk \in BOOLEAN : EnsureOutputDir(mkdirOk)
    /\ SetPool(LaunchWorkers([nextIndex |-> 0, workers |-> NoWorkers,
                              claimed |-> <<>>], 0, WorkerBound))
    /\ results' = NewArray(urls.length)
    /\ writeCount' = [i \in 0..(urls.length - 1) |-> 0]
    /\ parPc' = "pending"
    /\ parError' = "none"
    /\ UNCHANGED <<inputVars, fnVars, seqVars, parOutcomes, report>>

\* the call of runParallel
RunParallel ==
    /\ seqPc = "idle"
    /\ ParallelCall

\* the call of runParallel with the arguments of a runSequential call that
\* has returned
RunParallelAfterSequential ==
    /\ seqPc = "returned"
    /\ ParallelCall

\* the call, when ensureOutputDir throws
RunParallelMkdirFails ==
    /\ parPc = "idle"
    /\ seqPc = "idle"
    /\ EnsureOutputDirThrows
    /\ parPc' = "rejected"
    /\ parError' = "mkdir"
    /\ UNCHANGED <<inputVars, fnVars, seqVars, results, nextIndex, workers, claimed,
                   writeCount, parOutcomes, report>>

\* results[index] = { url, outputPath, ...result } by the worker activation me
WriteResult(me, slot, result) ==
    /\ results' = ArraySet(results, slot,
                           ResultRecord(me.url, me.outputPath, result))
    /\ writeCount' = [writeCount EXCEPT ![slot] = @ + 1]
    /\ parOutcomes' = Merge(parOutcomes, [i \in {me.index} |-> result])

\* recordFn resolves in worker w: results[index] = ..., the log line, and
\* the next iteration of the while loop up to its await
WorkerResume(w) ==
    /\ workers[w].pc = "awaiting"
    /\ \E result \in Outcomes :
          WriteResult(workers[w], ResultSlot(workers[w]), result)
    /\ SetPool(WorkerIterate(PoolState, w))
    /\ UNCHANGED <<inputVars, fnVars, dirExists, seqVars, parPc, parError, report>>

\* WorkerThrow that cancels the invocations of the other workers
WorkerThrowCancelsOthers(w) ==
    /\ workers[w].pc = "awaiting"
    /\ workers' = [v \in DOMAIN workers |->
                     IF v = w
                     THEN [workers[v] EXCEPT !.pc = "threw", !.ctx = EmptyObject]
                     ELSE [workers[v] EXCEPT !.pc = "exited"]]
    /\ UNCHANGED <<inputVars, fnVars, dirExists, seqVars, parPc, parError, results,
                   nextIndex, claimed, writeCount, parOutcomes, report>>

\* recordFn raises in worker w: the await throws and worker(w) rejects,
\* with results[index] not written
WorkerThrow(w) ==
    /\ workers[w].pc = "awaiting"
    /\ workers' = [workers EXCEPT ![w].pc = "threw", ![w].ctx = EmptyObject]
    /\ UNCHANGED <<inputVars, fnVars, dirExists, seqVars, parPc, parError, results,
                   nextIndex, claimed, writeCount, parOutcomes, report>>

\* the invocation in flight in worker w never settles
WorkerHang(w) ==
    /\ workers[w].pc = "awaiting"
    /\ workers' = [workers EXCEPT ![w].pc = "hung"]
    /\ UNCHANGED <<inputVars, fnVars, dirExists, seqVars, parPc, parError, results,
                   nextIndex, claimed, writeCount, parOutcomes, report>>

\* ParJoin that does not wait for a worker whose invocation hangs
ParJoinSkipsHung ==
    /\ parPc = "pending"
    /\ \A w \in DOMAIN workers : workers[w].pc \in {"exited", "hung"}
    /\ parPc' = "returned"
    /\ UNCHANGED <<inputVars, fnVars, dirExists, seqVars, parError, results, nextIndex,
                   workers, claimed, writeCount, parOutcomes, report>>

\* Promise.all(workers) fulfils: every worker promise has fulfilled, and
\* runParallel returns results
ParJoin ==
    /\ parPc = "pending"
    /\ \A w \in DOMAIN workers : workers[w].pc = "exited"
    /\ parPc' = "returned"
    /\ UNCHANGED <<inputVars, fnVars, dirExists, seqVars, parError, results, nextIndex,
                   workers, claimed, writeCount, parOutcomes, report>>

\* Promise.all(workers) rejects: a worker promise has rejected, and
\* runParallel rejects while the other workers go on
ParReject ==
    /\ parPc = "pending"
    /\ \E w \in DOMAIN workers : workers[w].pc = "threw"
    /\ parPc' = "rejected"
    /\ parError' = "recordFn"
    /\ UNCHANGED <<inputVars, fnVars, dirExists, seqVars, results, nextIndex, workers,
                   claimed, writeCount, parOutcomes, report>>

\* ------------------------------------------------------ printBatchSummary

\* "undefined": how a template literal renders a missing property
UndefinedText == <<"u","n","d","e","f","i","n","e","d">>

\* the two log lines of one result: `[${status}] ${result.url}` and the
\* detail, result.outputPath or result.error
SummaryRow(result) ==
    IF "success" \in DOMAIN result /\ result.success
    THEN [status |-> "OK", url |-> result.url, detail |-> result.outputPath]
    ELSE [status |-> "FAIL", url |-> result.url,
          detail |-> IF "error" \in DOMAIN result THEN result.error
                     ELSE UndefinedText]

\* successCount, failCount after this row
CountRow(row, counts) ==
    IF row.status = "OK"
    THEN [success |-> counts.success + 1, failed |-> counts.failed]
    ELSE [success |-> counts.success, failed |-> counts.failed + 1]

\* for (const result of results) from position i on, then the totals line;
\* an empty slot yields undefined, and result.success throws a TypeError
RECURSIVE SummaryLoop(_, _, _, _)
SummaryLoop(res, i, rows, counts) ==
    IF i >= res.length
    THEN [printed |-> TRUE, rows |-> rows, threw |-> FALSE,
          totals  |-> <<[total   |-> res.length,
                         success |-> counts.success,
                         failed  |-> counts.failed]>>]
    ELSE IF ~HasSlot(res, i)
    THEN [printed |-> TRUE, rows |-> rows, threw |-> TRUE, totals |-> <<>>]
    ELSE SummaryLoop(res, i + 1, Append(rows, SummaryRow(res.at[i])),
                     CountRow(SummaryRow(res.at[i]), counts))

\* what printBatchSummary(res) logs
printBatchSummary(res) ==
    SummaryLoop(res, 0, <<>>, [success |-> 0, failed |-> 0])

\* the caller prints the summary of the list runSequential returned
PrintSequentialSummary ==
    /\ seqPc = "returned"
    /\ parPc = "idle"
    /\ ~report.printed
    /\ report' = printBatchSummary(seqResults)
    /\ UNCHANGED <<inputVars, fnVars, dirExists, seqVars, parVars>>

\* the caller prints the summary of the list runParallel returned
PrintParallelSummary ==
    /\ parPc = "returned"
    /\ ~report.printed
    /\ report' = printBatchSummary(results)
    /\ UNCHANGED <<inputVars, fnVars, dirExists, seqVars, parVars>>

\* ------------------------------------------------------------------- Spec

\* one batch call, sequential or parallel, and the summary of what it returned
Next ==
    \/ RunSequential
    \/ RunSequentialMkdirFails
    \/ SeqResume
    \/ SeqThrow
    \/ SeqHang
    \/ RunParallel
    \/ RunParallelMkdirFails
    \/ \E w \in DOMAIN workers : WorkerResume(w)
    \/ \E w \in DOMAIN workers : WorkerThrow(w)
    \/ \E w \in DOMAIN workers : WorkerHang(w)
    \/ ParJoin
    \/ ParReject
    \/ PrintSequentialSummary
    \/ PrintParallelSummary

Spec == Init /\ [][Next]_vars

\* runSequential, then runParallel with the same arguments, every invocation
\* of recordFn resolving
CompareNext ==
    \/ RunSequential
    \/ SeqResume
    \/ RunParallelAfterSequential
    \/ \E w \in DOMAIN workers : WorkerResume(w)
    \/ ParJoin

CompareSpec == Init /\ [][CompareNext]_vars

\* the worker ids a call can launch
WorkerIds == 0..(MaxConcurrency - 1)

\* the invocation in flight in worker w is the one of the call that never
\* settles
WorkerHangsAlone(w) ==
    /\ \A v \in DOMAIN workers : workers[v].pc # "hung"
    /\ WorkerHang(w)

\* the runParallel calls in which at most one invocation of recordFn never
\* settles and every other one resolves
HangNext ==
    \/ RunParallel
    \/ \E w \in DOMAIN workers : WorkerResume(w)
    \/ \E w \in DOMAIN workers : WorkerHangsAlone(w)
    \/ ParJoin

\* the event loop runs the continuation of every invocation that settles,
\* and of Promise.all
HangFairness ==
    /\ \A w \in WorkerIds :
          WF_vars(w \in DOMAIN workers
                  /\ (WorkerResume(w) \/ WorkerHangsAlone(w)))
    /\ WF_vars(ParJoin)

\* the calls whose output directory exists and that pass no shared argument:
\* neither takes part in the settling of an invocation
HangInit ==
    /\ Init
    /\ dirExists
    /\ sharedArgs = EmptyObject

HangSpec == HangInit /\ [][HangNext]_vars /\ HangFairness

\* the invocation in flight in worker w is the one of the call that raises
WorkerThrowsAlone(w) ==
    /\ \A v \in DOMAIN workers : workers[v].pc # "threw"
    /\ WorkerThrow(w)

\* the runParallel calls in which at most one invocation of recordFn raises
\* and every other one resolves
ThrowNext ==
    \/ RunParallel
    \/ \E w \in DOMAIN workers : WorkerResume(w)
    \/ \E w \in DOMAIN workers : WorkerThrowsAlone(w)
    \/ ParJoin
    \/ ParReject

\* the event loop runs the continuation of every invocation that settles,
\* and of Promise.all
ThrowFairness ==
    /\ \A w \in WorkerIds :
          WF_vars(w \in DOMAIN workers
                  /\ (WorkerResume(w) \/ WorkerThrowsAlone(w)))
    /\ WF_vars(ParJoin)
    /\ WF_vars(ParReject)

ThrowSpec == HangInit /\ [][ThrowNext]_vars /\ ThrowFairness

\* ------------------------------------------------------------ readUrlFile

\* the line terminator content.split('\n') splits at
NL == "\n"

\* the characters String.prototype.trim removes, among those of FileChars
WhiteSpaceChars == {" ", NL}

\* the characters of the URL files
FileChars == {"a", "#", " ", NL}

\* the lines '# comment', '', 'https://example.com/page', 'not a url'
ExampleContent ==
    <<"#"," ","c","o","m","m","e","n","t","\n","\n","h","t","t","p","s",
      ":","/","/","e","x","a","m","p","l","e",".","c","o","m","/","p",
      "a","g","e","\n","n","o","t"," ","a"," ","u","r","l">>

\* the contents of the URL files: every string of at most MaxFileLen
\* characters of FileChars, and ExampleContent
FileContents ==
    UNION { [1..n -> FileChars] : n \in 0..MaxFileLen } \cup {ExampleContent}

Files == {NoFile} \cup {[exists |-> TRUE, content |-> c] : c \in FileContents}

\* number of white space characters s begins with, and ends with
LeadingWhiteSpace(s) ==
    CHOOSE k \in 0..Len(s) :
        /\ \A j \in 1..k : s[j] \in WhiteSpaceChars
        /\ k = Len(s) \/ s[k + 1] \notin WhiteSpaceChars
TrailingWhiteSpace(s) ==
    CHOOSE k \in 0..Len(s) :
        /\ \A j \in (Len(s) - k + 1)..Len(s) : s[j] \in WhiteSpaceChars
        /\ k = Len(s) \/ s[Len(s) - k] \notin WhiteSpaceChars

\* line.trim()
Trim(s) ==
    IF LeadingWhiteSpace(s) = Len(s) THEN <<>>
    ELSE SubSeq(s, LeadingWhiteSpace(s) + 1, Len(s) - TrailingWhiteSpace(s))

\* content.split('\n'), for a content whose first line has k characters
RECURSIVE SplitAt(_, _)
SplitAt(s, k) ==
    IF k = Len(s) THEN <<s>>
    ELSE <<SubSeq(s, 1, k)>>
         \o The({SplitAt(rest, PrefixBefore(rest, {NL})) :
                    rest \in {SubSeq(s, k + 2, Len(s))}})

\* content.split('\n')
SplitLines(content) == SplitAt(content, PrefixBefore(content, {NL}))

\* .map(line => line.trim())
TrimLines(lines) == [i \in DOMAIN lines |-> Trim(lines[i])]

\* KeepLine without the test for a comment
KeepLineNonEmpty(line) == Len(line) > 0

\* line => line.length > 0 && !line.startsWith('#')
KeepLine(line) == Len(line) > 0 /\ ~StartsWith(line, <<"#">>)

\* the URLs of a file content: split, trimmed, filtered
UrlsOf(content) == SelectSeq(TrimLines(SplitLines(content)), KeepLine)

\* what readUrlFile ends with for the URLs it found
ReadOutcome(found) ==
    IF Len(found) = 0
    THEN [pc |-> "threw", urls |-> <<>>, error |-> "noUrls"]
    ELSE [pc |-> "returned", urls |-> found, error |-> "none"]

\* readUrlFile(filePath), up to `await readFile(...)`
ReadUrlFileCall ==
    /\ read.pc = "idle"
    /\ read' = IF ~file.exists
               THEN [pc |-> "threw", urls |-> <<>>, error |-> "notFound"]
               ELSE [pc |-> "reading", urls |-> <<>>, error |-> "none"]
    /\ UNCHANGED <<inputVars, dirExists, seqVars, parVars, report, gen, file>>

\* readFile resolves with the content
ReadUrlFileResume ==
    /\ read.pc = "reading"
    /\ read' = ReadOutcome(UrlsOf(file.content))
    /\ UNCHANGED <<inputVars, dirExists, seqVars, parVars, report, gen, file>>

\* readFile rejects (the file cannot be read): the error propagates
ReadFileRejects ==
    /\ read.pc = "reading"
    /\ read' = [pc |-> "threw", urls |-> <<>>, error |-> "readFile"]
    /\ UNCHANGED <<inputVars, dirExists, seqVars, parVars, report, gen, file>>

\* no batch is run; the URL file is any of Files
ReadInit ==
    /\ urls = NewArray(0)
    /\ outputDir = <<>>
    /\ sharedArgs = EmptyObject
    /\ concurrency = 1
    /\ dirExists = TRUE
    /\ BatchIdle
    /\ gen = <<>>
    /\ file \in Files
    /\ read = NoRead

ReadNext ==
    \/ ReadUrlFileCall
    \/ ReadUrlFileResume
    \/ ReadFileRejects

ReadSpec == ReadInit /\ [][ReadNext]_vars

\* ------------------------------------------- generateOutputPath on its own

\* one call generateOutputPath(url, index, outputDir), recorded with what
\* it returned
PathCall(url, index) ==
    [url       |-> url,
     index     |-> index,
     outputDir |-> outputDir,
     path      |-> generateOutputPath(url, index, outputDir)]

GenerateOutputPath ==
    /\ Len(gen) < MaxCalls
    /\ \E url \in PathUrls, index \in PathIndices :
          gen' = Append(gen, PathCall(url, index))
    /\ UNCHANGED <<inputVars, dirExists, seqVars, parVars, report, file, read>>

\* no batch is run; the output directory is any of PathDirs
PathInit ==
    /\ urls = NewArray(0)
    /\ outputDir \in PathDirs
    /\ sharedArgs = EmptyObject
    /\ concurrency = 1
    /\ dirExists = TRUE
    /\ BatchIdle
    /\ FnIdle

PathSpec == PathInit /\ [][GenerateOutputPath]_vars

\* ----------------------------------------------------------------- claims

\* the positions of the URL array
Positions == 0..(urls.length - 1)

\* res has the length of urls and holds, at every position, a record whose
\* url is the URL of that position
InInputOrder(res) ==
    /\ res.length = urls.length
    /\ \A i \in Positions : HasSlot(res, i) /\ res.at[i].url = urls.at[i]

\* the workers with an invocation of recordFn in flight
InFlight == {w \in DOMAIN workers : workers[w].pc \in {"awaiting", "hung"}}

\* how many times job index i occurs in the sequence of claims s
Occurrences(s, i) == Cardinality({k \in DOMAIN s : s[k] = i})

\* the job indices for which recordFn raised
SeqRaised == IF seqError = "recordFn" THEN {seqI} ELSE {}
ParRaised == {workers[w].index : w \in {v \in DOMAIN workers : workers[v].pc = "threw"}}

\* r is a failure JobResult: success is false and an error is given
IsFailureRecord(r) ==
    /\ "success" \in DOMAIN r
    /\ ~r.success
    /\ "error" \in DOMAIN r

\* C1: for every non-empty URL list, the list runSequential returns and the
\* list runParallel returns have the length of the input, and result[i].url
\* is urls[i] at every index i.
C1_ResultsInInputOrder ==
    /\ (seqPc = "returned" /\ urls.length > 0) => InInputOrder(seqResults)
    /\ (parPc = "returned" /\ urls.length > 0) => InInputOrder(results)

\* C2: in runParallel no job index is claimed twice and no slot is written
\* twice, and once every launched worker has finished, every job index
\* 0..N-1 has been claimed exactly once and every slot written exactly once.
C2_ClaimedAndWrittenOnce ==
    /\ \A i \in Positions : Occurrences(claimed, i) <= 1
    /\ \A i \in DOMAIN writeCount : writeCount[i] <= 1
    /\ (/\ parPc \in {"pending", "returned", "rejected"}
        /\ parError # "mkdir"
        /\ \A w \in DOMAIN workers : workers[w].pc \in {"exited", "threw"})
       => \A i \in Positions :
             Occurrences(claimed, i) = 1 /\ writeCount[i] = 1

\* C3: any two invocations of recordFn in flight at the same time in
\* runParallel were given different sinkName values and different
\* displayStartNumber values.
C3_DistinctWorkerResources ==
    \A v, w \in InFlight :
        v # w => /\ workers[v].ctx.sinkName # workers[w].ctx.sinkName
                 /\ workers[v].ctx.displayStartNumber
                        # workers[w].ctx.displayStartNumber

\* C4: when recordFn raises for a job, a failure JobResult is stored at that
\* job's index and neither runSequential nor runParallel is aborted by it.
C4_RaiseIsNormalized ==
    /\ \A i \in SeqRaised :
          HasSlot(seqResults, i) /\ IsFailureRecord(seqResults.at[i])
    /\ \A i \in ParRaised :
          HasSlot(results, i) /\ IsFailureRecord(results.at[i])
    /\ ~(seqPc = "rejected" /\ seqError = "recordFn")
    /\ ~(parPc = "rejected" /\ parError = "recordFn")

\* the job indices whose recorded outcome is a failure
FailedJobs(outcomes) == {i \in DOMAIN outcomes : ~outcomes[i].success}

\* the job indices 0, 1, ..., N-1 in order
IndexOrder == [k \in 1..urls.length |-> k - 1]

\* the failed outcome of job i is kept in res at index i
FailureKept(res, outcomes, i) ==
    /\ HasSlot(res, i)
    /\ res.at[i].url = urls.at[i]
    /\ res.at[i].success = FALSE
    /\ res.at[i].error = outcomes[i].error

\* C5: a job whose outcome has success = false is not retried and does not
\* abort the batch: its outcome is kept at its index, the sequential loop has
\* gone on to the next URL, no worker ends while a job is unclaimed, and a
\* call that returns after a failure has invoked recordFn once for every URL
\* and returns a list of the input's length and order.
C5_FailureDoesNotAbort ==
    /\ \A i \in Positions :
          Occurrences(seqInvoked, i) <= 1 /\ Occurrences(claimed, i) <= 1
    /\ \A i \in FailedJobs(seqOutcomes) :
          /\ FailureKept(seqResults, seqOutcomes, i)
          /\ (i + 1 < urls.length) => Occurrences(seqInvoked, i + 1) = 1
    /\ \A i \in FailedJobs(parOutcomes) : FailureKept(results, parOutcomes, i)
    /\ FailedJobs(parOutcomes) # {}
          => \A w \in DOMAIN workers :
                workers[w].pc = "exited" => nextIndex >= urls.length
    /\ (seqPc = "returned" /\ FailedJobs(seqOutcomes) # {})
          => InInputOrder(seqResults) /\ seqInvoked = IndexOrder
    /\ (parPc = "returned" /\ FailedJobs(parOutcomes) # {})
          => InInputOrder(results) /\ claimed = IndexOrder

\* a sequential batch of three returned although its first job failed
C5_Witness ==
    /\ seqPc = "returned"
    /\ urls.length = 3
    /\ FailedJobs(seqOutcomes) = {0}

\* C6: for a concurrency between 1 and the batch size, the list runParallel
\* returns has, at every index, the url and the outputPath of the list
\* runSequential returns for the same urls and outputDir.
C6_SameCorrespondenceAsSequential ==
    (/\ seqPc = "returned"
     /\ parPc = "returned"
     /\ 1 <= concurrency
     /\ concurrency <= urls.length)
    => /\ results.length = seqResults.length
       /\ \A i \in Positions :
             /\ HasSlot(results, i)
             /\ HasSlot(seqResults, i)
             /\ results.at[i].url = seqResults.at[i].url
             /\ results.at[i].outputPath = seqResults.at[i].outputPath

\* both calls returned for three URLs, two workers, and outcomes that differ
\* between the two calls
C6_Witness ==
    /\ seqPc = "returned"
    /\ parPc = "returned"
    /\ urls.length = 3
    /\ urls.at[0] # urls.at[1]
    /\ concurrency = 2
    /\ seqOutcomes[0].success
    /\ ~parOutcomes[0].success

\* the list printBatchSummary was given
Summarized == IF parPc = "returned" THEN results ELSE seqResults

\* row k of the report is the entry at index k - 1, tagged by its success
RowMatches(res, k) ==
    /\ HasSlot(res, k - 1)
    /\ report.rows[k].url = res.at[k - 1].url
    /\ report.rows[k].status = IF res.at[k - 1].success THEN "OK" ELSE "FAIL"

\* C7: printBatchSummary lists every entry of the result list exactly once,
\* in index order, tagged OK or FAIL, and its totals line has
\* Success + Failed = Total = results.length.
C7_SummaryListsEveryJob ==
    report.printed
    => /\ ~report.threw
       /\ Len(report.rows) = Summarized.length
       /\ \A k \in 1..Len(report.rows) : RowMatches(Summarized, k)
       /\ Len(report.totals) = 1
       /\ report.totals[1].total = Summarized.length
       /\ report.totals[1].success + report.totals[1].failed
              = report.totals[1].total

\* runParallel has launched its workers
Launched == parPc \in {"pending", "returned", "rejected"} /\ parError # "mkdir"

\* the jobs whose invocation of recordFn has started and not settled
JobsInFlight ==
    {i \in Positions :
        Occurrences(claimed, i) > 0 /\ writeCount[i] = 0 /\ i \notin ParRaised}

\* Math.max(0, n)
AtLeastZero(n) == IF n < 0 THEN 0 ELSE n

\* C8 as stated: runParallel launches exactly min(concurrency, urls.length)
\* workers, with ids 0..min(concurrency, urls.length)-1, and never has more
\* than min(concurrency, urls.length) invocations of recordFn in flight.
C8_Original ==
    Launched
    => /\ Cardinality(DOMAIN workers) = MathMin(concurrency, urls.length)
       /\ DOMAIN workers = 0..(MathMin(concurrency, urls.length) - 1)
       /\ Cardinality(JobsInFlight) <= MathMin(concurrency, urls.length)

\* C8 amended: runParallel launches exactly max(0, min(concurrency,
\* urls.length)) workers, with ids 0..min(concurrency, urls.length)-1; no
\* job is in flight in two workers, and the number of invocations of
\* recordFn in flight never exceeds that number of workers.
C8_WorkerCount ==
    Launched
    => /\ Cardinality(DOMAIN workers)
             = AtLeastZero(MathMin(concurrency, urls.length))
       /\ DOMAIN workers = 0..(MathMin(concurrency, urls.length) - 1)
       /\ JobsInFlight = {workers[w].index : w \in InFlight}
       /\ Cardinality(JobsInFlight) = Cardinality(InFlight)
       /\ Cardinality(JobsInFlight)
             <= AtLeastZero(MathMin(concurrency, urls.length))

\* a concurrency of 3 on two URLs: two workers, both with a job in flight
C8_Witness ==
    /\ parPc = "pending"
    /\ concurrency = 3
    /\ urls.length = 2
    /\ Cardinality(DOMAIN workers) = 2
    /\ Cardinality(JobsInFlight) = 2

\* C9: runParallel completes only after every launched worker has found the
\* queue exhausted, and at that moment every slot 0..N-1 of the result array
\* is filled and no job is in flight.
C9_CompleteMeansFilled ==
    parPc \in {"returned", "rejected"} /\ parError # "mkdir"
    => /\ \A w \in DOMAIN workers : workers[w].pc = "exited"
       /\ \A i \in Positions : HasSlot(results, i)
       /\ JobsInFlight = {}

\* the workers whose invocation never returns
Hung == {w \in DOMAIN workers : workers[w].pc = "hung"}

\* every job but those of the hung workers has been claimed and completed
OthersCompleted ==
    \A i \in Positions :
        i \in {workers[w].index : w \in Hung}
        \/ (Occurrences(claimed, i) = 1 /\ HasSlot(results, i))

\* runParallel has completed, with a list or with an error
ParCompleted == parPc \in {"returned", "rejected"}

\* C10: in a runParallel call with at least two workers in which one
\* invocation of recordFn never returns and every other one returns, every
\* other job is eventually claimed and completed, and the call never
\* completes.
C10_OneHangStallsOnlyCompletion ==
    /\ (Cardinality(Hung) = 1 /\ Cardinality(DOMAIN workers) >= 2)
           ~> OthersCompleted
    /\ [](Hung # {} => ~ParCompleted)

\* two workers on three URLs: the job of the first hangs, the second worker
\* has completed the two other jobs, and the call is still pending
C10_Witness ==
    /\ parPc = "pending"
    /\ urls.length = 3
    /\ Cardinality(DOMAIN workers) = 2
    /\ workers[0].pc = "hung"
    /\ workers[0].index = 0
    /\ workers[1].pc = "exited"
    /\ HasSlot(results, 1)
    /\ HasSlot(results, 2)

\* recordFn has been invoked, or a worker launched, by either call
Started ==
    \/ seqInvoked # <<>>
    \/ seqPc \in {"awaiting", "hung"}
    \/ seqResults.length > 0
    \/ workers # NoWorkers
    \/ claimed # <<>>
    \/ DOMAIN results.at # {}

\* C11: recordFn is invoked and workers are launched only once the output
\* directory exists; a call in which the creation of the directory fails
\* is rejected with that error, without any invocation of recordFn and
\* without any worker.
C11_DirectoryFirst ==
    /\ Started => dirExists
    /\ seqError = "mkdir" => seqPc = "rejected" /\ ~Started
    /\ parError = "mkdir" => parPc = "rejected" /\ ~Started
    /\ (seqPc = "rejected" /\ seqInvoked = <<>>) => seqError = "mkdir"

\* runParallel on two URLs with two workers was rejected because the
\* directory could not be created
C11_Witness ==
    /\ parPc = "rejected"
    /\ parError = "mkdir"
    /\ urls.length = 2
    /\ concurrency = 2
    /\ ~dirExists

\* the last component of a path: what follows its last '/'
FileName(path) ==
    SubSeq(path,
           1 + (CHOOSE k \in 0..Len(path) :
                   /\ k = 0 \/ path[k] = "/"
                   /\ \A j \in (k + 1)..Len(path) : path[j] # "/"),
           Len(path))

\* s.endsWith(p)
EndsWith(s, p) ==
    Len(s) >= Len(p) /\ SubSeq(s, Len(s) - Len(p) + 1, Len(s)) = p

\* what precedes the first '-' of a name (the whole name if it has none)
LeadingField(name) ==
    SubSeq(name, 1,
           CHOOSE k \in 0..Len(name) :
               /\ \A j \in 1..k : name[j] # "-"
               /\ k = Len(name) \/ name[k + 1] = "-")

\* the number a string of decimal digits denotes
RECURSIVE DecimalValue(_)
DecimalValue(s) ==
    IF Len(s) = 0 THEN 0
    ELSE 10 * DecimalValue(SubSeq(s, 1, Len(s) - 1))
         + (CHOOSE d \in 0..9 : DigitChars[d + 1] = s[Len(s)])

\* name is <field>-<...>.mp4 where field is made of digits and denotes n
NumberedMp4(name, n) ==
    /\ Len(LeadingField(name)) < Len(name)
    /\ \A j \in DOMAIN LeadingField(name) : IsDigit(LeadingField(name)[j])
    /\ DecimalValue(LeadingField(name)) = n
    /\ EndsWith(name, DotMp4)

\* C12 as stated: the file name generateOutputPath produces starts with
\* index+1 as a decimal of three digits, zero-padded, followed by '-', and
\* ends with '.mp4'.
C12_Original ==
    \A k \in DOMAIN gen :
        /\ NumberedMp4(FileName(gen[k].path), gen[k].index + 1)
        /\ Len(LeadingField(FileName(gen[k].path))) = PrefixWidth

\* C12 amended: the file name generateOutputPath produces starts with the
\* decimal digits of index+1, zero-padded on the left to three digits when
\* there are fewer (and all of the digits when there are more than three),
\* followed by '-', and ends with '.mp4'.
C12_IndexPrefixed ==
    \A k \in DOMAIN gen :
        /\ NumberedMp4(FileName(gen[k].path), gen[k].index + 1)
        /\ Len(LeadingField(FileName(gen[k].path))) >= PrefixWidth
        /\ Len(LeadingField(FileName(gen[k].path))) > PrefixWidth
              => LeadingField(FileName(gen[k].path))[1] # "0"

\* generateOutputPath was called with index 999 and returned a path whose
\* file name starts with "1000-"
C12_Witness ==
    \E k \in DOMAIN gen :
        /\ gen[k].index = 999
        /\ gen[k].url = UrlPage
        /\ LeadingField(FileName(gen[k].path)) = <<"1", "0", "0", "0">>

\* the first 50 characters of url, each one outside [A-Za-z0-9] replaced
\* by '-'
SlugOf(url) ==
    [i \in 1..(IF Len(url) < 50 THEN Len(url) ELSE 50) |->
        IF url[i] \in LowerSet \cup UpperSet \cup DigitSet THEN url[i] ELSE "-"]

\* outputDir/<prefix>-<slug>.mp4
FallbackOf(call) ==
    PathJoin(call.outputDir,
             IndexPrefix(call.index) \o <<"-">> \o SlugOf(call.url) \o DotMp4)

\* "/out/005-not-a-valid-url--.mp4"
ExamplePath ==
    <<"/","o","u","t","/","0","0","5","-","n","o","t","-","a","-","v","a",
      "l","i","d","-","u","r","l","-","-",".","m","p","4">>

\* the call generateOutputPath('not a valid url!!', 4, '/out')
IsExampleCall(call) ==
    /\ call.url = UrlInvalid
    /\ call.index = 4
    /\ call.outputDir = <<"/","o","u","t">>

\* C13: every call of generateOutputPath returns a path; for a url that
\* new URL() rejects the path is outputDir/<prefix>-<slug>.mp4, the slug
\* being the url with every character outside [A-Za-z0-9] replaced by '-',
\* cut to 50 characters; 'not a valid url!!' at index 4 in '/out' gives
\* '/out/005-not-a-valid-url--.mp4'.
C13_FallbackForUnparseable ==
    \A k \in DOMAIN gen :
        /\ Len(gen[k].path) > 0
        /\ ~ParseURL(gen[k].url).ok => gen[k].path = FallbackOf(gen[k])
        /\ IsExampleCall(gen[k]) => gen[k].path = ExamplePath

\* the example call, and a call with an unparseable string longer than 50
\* characters whose slug was cut
C13_Witness ==
    /\ Len(gen) = 2
    /\ IsExampleCall(gen[1])
    /\ gen[2].url = UrlLongInvalid
    /\ Len(gen[2].url) > 50
    /\ ~ParseURL(gen[2].url).ok
    /\ Len(FileName(gen[2].path)) = Len(IndexPrefix(gen[2].index)) + 1 + 50 + 4

\* C14: two calls of generateOutputPath of one batch (the same outputDir)
\* with different indices return different paths, whatever the two URLs,
\* equal ones included.
C14_DistinctIndicesDistinctPaths ==
    \A j, k \in DOMAIN gen :
        (gen[j].outputDir = gen[k].outputDir /\ gen[j].index # gen[k].index)
        => gen[j].path # gen[k].path

\* the same URL at indices 0 and 1000, whose numbers 1 and 1001 agree on
\* their last three digits
C14_Witness ==
    /\ Len(gen) = 2
    /\ gen[1].url = gen[2].url
    /\ gen[1].index = 0
    /\ gen[2].index = 1000
    /\ gen[1].path # gen[2].path

\* the positions of the line terminators of the file, and the number of
\* its lines
Terminators == {i \in DOMAIN file.content : file.content[i] = NL}
LineCount == Cardinality(Terminators) + 1

\* the position of the j-th line terminator; 0 before the first line and
\* one past the end of the file after the last
TerminatorAt(j) ==
    IF j = 0 THEN 0
    ELSE IF j = LineCount THEN Len(file.content) + 1
    ELSE CHOOSE p \in Terminators :
             Cardinality({q \in Terminators : q < p}) = j - 1

\* the positions of the characters of line j that are not white space
InkOf(j) ==
    {i \in (TerminatorAt(j - 1) + 1)..(TerminatorAt(j) - 1) :
        file.content[i] # " "}

\* the lines that are not blank and whose first such character is not '#'
UrlLineNumbers ==
    {j \in 1..LineCount :
        InkOf(j) # {}
        /\ file.content[CHOOSE i \in InkOf(j) : \A h \in InkOf(j) : i <= h] # "#"}

\* the r-th of them, in file order
UrlLineNumber(r) ==
    CHOOSE j \in UrlLineNumbers :
        Cardinality({h \in UrlLineNumbers : h < j}) = r - 1

\* line j from its first to its last character that is not white space
TrimmedLine(j) ==
    [i \in 1..(1 + (CHOOSE b \in InkOf(j) : \A h \in InkOf(j) : h <= b)
                 - (CHOOSE a \in InkOf(j) : \A h \in InkOf(j) : a <= h)) |->
        file.content[i - 1 + (CHOOSE a \in InkOf(j) : \A h \in InkOf(j) : a <= h)]]

\* ["https://example.com/page", "not a url"]
ExampleUrls ==
    << SubSeq(ExampleContent, 12, 35), SubSeq(ExampleContent, 37, 45) >>

\* C15: readUrlFile returns, in file order and without removing
\* duplicates, exactly the trimmed lines that are not empty after trimming
\* and do not start with '#'; it fails with 'file not found' when the file
\* does not exist and with 'no URLs found' when no line is left; the
\* example file gives ['https://example.com/page', 'not a url'].
C15_ReadUrlFile ==
    /\ read.pc = "returned"
          => /\ file.exists
             /\ UrlLineNumbers # {}
             /\ Len(read.urls) = Cardinality(UrlLineNumbers)
             /\ \A r \in DOMAIN read.urls :
                   read.urls[r] = TrimmedLine(UrlLineNumber(r))
    /\ (read.pc # "idle" /\ ~file.exists)
          => read.pc = "threw" /\ read.error = "notFound"
    /\ read.error = "notFound" => ~file.exists
    /\ (read.pc \in {"returned", "threw"} /\ file.exists
            /\ UrlLineNumbers = {} /\ read.error # "readFile")
          => read.pc = "threw" /\ read.error = "noUrls"
    /\ read.error = "noUrls" => file.exists /\ UrlLineNumbers = {}
    /\ (read.pc = "returned" /\ file.content = ExampleContent)
          => read.urls = ExampleUrls

\* readUrlFile returned the two URLs of the example file
C15_Witness ==
    /\ read.pc = "returned"
    /\ file.content = ExampleContent
    /\ Len(read.urls) = 2
    /\ Len(read.urls[1]) = 24

\* the claims made so far are 0, 1, 2, ... in this order, and the cursor
\* has advanced by one per claim
ClaimsAreAPrefix ==
    /\ \A k \in DOMAIN claimed : claimed[k] = k - 1
    /\ nextIndex = Len(claimed)
    /\ Len(claimed) <= urls.length

\* runParallel has completed and no worker is still running
PoolFinished ==
    /\ parPc \in {"returned", "rejected"}
    /\ parError # "mkdir"
    /\ \A w \in DOMAIN workers : workers[w].pc \in {"exited", "threw"}

\* C16: the job indices claimed from the shared cursor, in the order of the
\* claims, are 0, 1, 2, ... without repetition and without gap, the cursor
\* advancing by one per claim, and they are exactly 0, 1, ..., N-1 once the
\* pool has finished.
C16_ClaimedInIndexOrder ==
    /\ ClaimsAreAPrefix
    /\ PoolFinished => claimed = IndexOrder

\* runSequential has an invocation of recordFn in flight
SeqInFlight == seqPc \in {"awaiting", "hung"}

\* C17: runSequential invokes recordFn for positions 0, 1, 2, ... in this
\* order; when the invocation for a position starts, the outcome of every
\* earlier position has been received and appended to the results, in
\* input order; at most one invocation is in flight.
C17_OneAtATimeInOrder ==
    /\ \A k \in DOMAIN seqInvoked : seqInvoked[k] = k - 1
    /\ Len(seqInvoked) <= urls.length
    /\ Len(seqInvoked) - seqResults.length \in {0, 1}
    /\ Len(seqInvoked) - Cardinality(DOMAIN seqOutcomes) \in {0, 1}
    /\ \A j \in 0..(seqResults.length - 1) :
          /\ HasSlot(seqResults, j)
          /\ seqResults.at[j].url = urls.at[j]
          /\ j \in DOMAIN seqOutcomes
          /\ seqResults.at[j].success = seqOutcomes[j].success
    /\ SeqInFlight
          => /\ seqInvoked[Len(seqInvoked)] = seqI
             /\ seqResults.length = seqI
             /\ DOMAIN seqOutcomes = 0..(seqI - 1)
    /\ ~SeqInFlight => Len(seqInvoked) - Cardinality(DOMAIN seqOutcomes)
                           = (IF seqError = "recordFn" THEN 1 ELSE 0)

\* the invocation for the third URL is in flight, the outcomes of the
\* first two are in the results
C17_Witness ==
    /\ seqPc = "awaiting"
    /\ seqI = 2
    /\ seqInvoked = <<0, 1, 2>>
    /\ seqResults.length = 2
    /\ ~seqOutcomes[0].success

\* 'recording_sink_<workerId>' for a worker id of one digit
SinkOfWorker(w) ==
    <<"r","e","c","o","r","d","i","n","g","_","s","i","n","k","_",
      DigitChars[w + 1]>>

\* the JobContext ctx describes job number index as worker w must pass it
DescribesJob(ctx, w, index) ==
    /\ ctx.jobIndex = index
    /\ ctx.url = urls.at[index]
    /\ ctx.outputPath = generateOutputPath(urls.at[index], index, outputDir)
    /\ ctx.parallelMode = TRUE
    /\ ctx.displayStartNumber = 99 + (w * 10)
    /\ ctx.sinkName = SinkOfWorker(w)

\* C18: every JobContext runParallel has passed to recordFn describes the
\* job its worker claimed, whatever sharedArgs contains: the job's original
\* index, its URL, the output path of that URL at that index, parallelMode
\* true, displayStartNumber 99 + 10 * workerId and sinkName
\* 'recording_sink_<workerId>'.
C18_ContextDescribesClaimedJob ==
    \A w \in InFlight :
        /\ Occurrences(claimed, workers[w].index) = 1
        /\ DescribesJob(workers[w].ctx, w, workers[w].index)

\* runParallel has ended with the error recordFn raised
EndedWithRaise == parPc = "rejected" /\ parError = "recordFn"

\* every job has been claimed, and every job but those that raised has its
\* result written
RestCompleted ==
    \A i \in Positions :
        /\ Occurrences(claimed, i) = 1
        /\ i \in ParRaised \/ HasSlot(results, i)

\* C19: in a runParallel call with at least two workers in which one
\* invocation of recordFn raises and every other one resolves, the slot of
\* the job that raised is never written, the call ends with the error, and
\* from every state after the raise (those in which the call has already
\* ended included) the other workers go on to claim and complete every
\* remaining job.
C19_RaiseDoesNotCancelOthers ==
    /\ [](\A i \in ParRaised : ~HasSlot(results, i) /\ writeCount[i] = 0)
    /\ [](EndedWithRaise => ParRaised # {})
    /\ (ParRaised # {} /\ Cardinality(DOMAIN workers) >= 2)
           ~> (EndedWithRaise /\ RestCompleted)

\* the call has ended with the error of job 0 while the second worker has
\* an invocation in flight and a job is still unclaimed
C19_Witness ==
    /\ EndedWithRaise
    /\ urls.length = 3
    /\ Cardinality(DOMAIN workers) = 2
    /\ workers[0].pc = "threw"
    /\ workers[0].index = 0
    /\ workers[1].pc = "awaiting"
    /\ nextIndex = 2
    /\ ~HasSlot(results, 0)

\* runParallel has been called on a non-empty list with a concurrency
\* below 1, and the directory was ensured
LaunchedWithoutWorkers == Launched /\ urls.length > 0 /\ concurrency < 1

\* the parallel call has invoked recordFn for no job
NeverInvoked ==
    /\ claimed = <<>>
    /\ nextIndex = 0
    /\ JobsInFlight = {}
    /\ ParRaised = {}
    /\ parOutcomes = EmptyObject

\* results is an array of length N with no slot written
AllHoles ==
    /\ results.length = urls.length
    /\ \A i \in Positions : ~HasSlot(results, i) /\ writeCount[i] = 0

\* C20: when runParallel is called with a non-empty URL list and a
\* concurrency below 1, no worker is launched, recordFn is never invoked,
\* the array has length N with no slot written, the call never ends with an
\* error, its return is possible as soon as it is pending, and the return
\* is the only step the call takes.
C20_NoWorkersBelowOne ==
    /\ [](LaunchedWithoutWorkers
            => /\ workers = NoWorkers
               /\ NeverInvoked
               /\ AllHoles
               /\ parPc \in {"pending", "returned"}
               /\ (parPc = "pending" => ENABLED ParJoin))
    /\ [][(LaunchedWithoutWorkers /\ parPc = "pending")
             => (parVars' = parVars \/ (ParJoin /\ AllHoles'))]_vars

\* a call with concurrency 0 on two URLs has returned an array of length 2
\* with both slots unwritten
C20_Witness ==
    /\ parPc = "returned"
    /\ concurrency = 0
    /\ urls.length = 2
    /\ workers = NoWorkers
    /\ results.length = 2
    /\ ~HasSlot(results, 0)
    /\ ~HasSlot(results, 1)
    /\ claimed = <<>>

====
